---- MODULE Spec2Model ----
(***************************************************************************)
(* Model of the Google Cloud Storage catalog plugin: lib/prepare.ts and    *)
(* lib/imports.ts (listResources, getResource).                            *)
(*                                                                         *)
(* Credentials and bucket names are TLA+ strings; object names, prefixes   *)
(* and resource ids are sequences of one-character strings, so that        *)
(* lastIndexOf, substring, split, path.basename and path.extname are       *)
(* computed character by character.                                        *)
(***************************************************************************)
EXTENDS Integers, Sequences, FiniteSets, TLC

VARIABLES
    catalogConfig,  \* the catalogConfig object of the context
    secrets,        \* the secrets object of the context (mutated in place)
    input,          \* the context the last call was made with
    result,         \* settlement of the last call's promise
    trace,          \* outbound calls and log notifications of the last call, in order
    remaining,      \* chunks the remote read stream has not emitted yet
    wbuf,           \* chunks written to the write stream and not flushed yet
    file,           \* the file system under tmpDir: path -> bytes
    progress,       \* the `progress` counter of getResource
    readState,      \* read stream: "none", "flowing", "paused", "ended", "errored"
    writeState,     \* write stream: "none", "opening", "open", "errored", "finished"
    ending,         \* dest.end() has been called by the pipe
    crashed         \* the process was terminated by an uncaught error

vars == <<catalogConfig, secrets, input, result, trace, remaining, wbuf, file,
          progress, readState, writeState, ending, crashed>>

streamVars == <<remaining, wbuf, file, progress, readState, writeState, ending, crashed>>

----------------------------------------------------------------------------
(* Bounds *)

MaxFiles == 2       \* objects in one backend listing
MaxPrefixes == 2    \* common prefixes in one backend listing
MaxIdLen == 3       \* characters of a resourceId
MaxBytes == 3       \* bytes of the remote object
MaxBuf == 2         \* chunks the write stream buffers before the pipe pauses the read side

----------------------------------------------------------------------------
(* JavaScript values *)

Undefined == "<undefined>"
NaN == -1

Sentinel == "*************************"

MissingConfiguration == "Service account and bucketName is required for Google Cloud Storage"
InvalidCredentials == "Invalid bucketName or service account credentials for Google Cloud Storage"
Unauthenticated == "Service Account is required to access Google Cloud Storage"
ListingFailed == "Erreur dans le listage des fichiers / Authentification GCS possiblement incorrecte"
\* the message of the source, its accented letters written without accents
DownloadFailed == "Erreur dans le telechargement du fichier / Authentification GCS possiblement incorrecte"

\* obj.key, undefined when the key is not there
Get(obj, key) == IF key \in DOMAIN obj THEN obj[key] ELSE Undefined

\* obj.key = v
Put(obj, key, v) == [k \in DOMAIN obj \cup {key} |-> IF k = key THEN v ELSE obj[k]]

\* delete obj.key
Delete(obj, key) == [k \in DOMAIN obj \ {key} |-> obj[k]]

\* truthiness of a string-or-undefined value
Truthy(v) == v # Undefined /\ v # ""

\* credential texts of the model and whether JSON.parse accepts them
GoodCred1 == "{\"k\":1}"
GoodCred2 == "{\"k\":2}"
BadCred == "not-a-json"

JSONParses(text) == text \in {GoodCred1, GoodCred2}

Pending == [op |-> "none", status |-> "idle", error |-> "", value |-> <<>>]

Rejected(op, msg) == [op |-> op, status |-> "error", error |-> msg, value |-> <<>>]

Resolved(op, v) == [op |-> op, status |-> "ok", error |-> "", value |-> v]

NoStream ==
    /\ remaining = <<>>
    /\ wbuf = <<>>
    /\ file = <<>>
    /\ progress = 0
    /\ readState = "none"
    /\ writeState = "none"
    /\ ending = FALSE
    /\ crashed = FALSE

----------------------------------------------------------------------------
(* Strings as sequences of characters; node:path (posix) *)

Alphabet == {"a", ".", "/"}

StringsUpTo(n) == UNION {[1..k -> Alphabet] : k \in 0..n}

\* s.lastIndexOf(c), 1-based; 0 when c does not occur
LastIndexOf(s, c) ==
    LET hits == {i \in 1..Len(s) : s[i] = c}
    IN  IF hits = {} THEN 0 ELSE CHOOSE i \in hits : \A j \in hits : j <= i

\* s.substring(from) with a 0-based `from`
SubstringFrom(s, from) == SubSeq(s, from + 1, Len(s))

\* s.endsWith(t)
EndsWith(s, t) == Len(t) <= Len(s) /\ SubSeq(s, Len(s) - Len(t) + 1, Len(s)) = t

\* the path without its trailing slashes
StripTrailingSlashes(s) ==
    LET keep == {i \in 1..Len(s) : s[i] # "/"}
    IN  IF keep = {} THEN <<>>
        ELSE SubSeq(s, 1, CHOOSE i \in keep : \A j \in keep : j <= i)

\* path.basename(p)
Basename(p) ==
    LET q == StripTrailingSlashes(p)
    IN  SubstringFrom(q, LastIndexOf(q, "/"))

\* path.extname(p)
Extname(p) ==
    LET b == Basename(p)
        dot == LastIndexOf(b, ".")
    IN  IF dot = 0 THEN <<>>
        ELSE IF dot = 1 THEN <<>>
        ELSE IF b = <<".", ".">> THEN <<>>
        ELSE SubSeq(b, dot, Len(b))

\* path.basename(p, ext)
BasenameExt(p, ext) ==
    IF ext = <<>> \/ Len(ext) > Len(p) THEN Basename(p)
    ELSE IF ext = p THEN <<>>
    ELSE LET b == Basename(p)
         IN  IF EndsWith(b, ext) /\ Len(b) > Len(ext)
             THEN SubSeq(b, 1, Len(b) - Len(ext))
             ELSE b

\* s.split('/').filter(fold => fold !== '')
RECURSIVE SplitSegments(_)
SplitSegments(s) ==
    IF s = <<>> THEN <<>>
    ELSE LET slashes == {i \in 1..Len(s) : s[i] = "/"}
             cut == IF slashes = {} THEN Len(s) + 1
                    ELSE CHOOSE i \in slashes : \A j \in slashes : i <= j
             head == SubSeq(s, 1, cut - 1)
             rest == SplitSegments(SubSeq(s, cut + 1, Len(s)))
         IN  IF head = <<>> THEN rest ELSE <<head>> \o rest

\* segments.join('/')
RECURSIVE JoinSegments(_)
JoinSegments(segs) ==
    IF segs = <<>> THEN <<>>
    ELSE IF Len(segs) = 1 THEN segs[1]
    ELSE segs[1] \o <<"/">> \o JoinSegments(Tail(segs))

\* array.filter(keep)
Filter(arr, keep(_)) ==
    LET kept == {i \in 1..Len(arr) : keep(arr[i])}
        nth(k) == CHOOSE i \in kept : Cardinality({j \in kept : j <= i}) = k
    IN  [k \in 1..Cardinality(kept) |-> arr[nth(k)]]

\* array.map(fn)
Map(arr, fn(_)) == [i \in 1..Len(arr) |-> fn(arr[i])]

----------------------------------------------------------------------------
(* lib/prepare.ts *)

ConfigServiceAccounts == {Undefined, "", Sentinel, GoodCred1, BadCred}
BucketNames == {Undefined, "", "test-bucket"}
SecretServiceAccounts == {Undefined, "", GoodCred1, GoodCred2, BadCred}

MkObj(key, v) == IF v = Undefined THEN <<>> ELSE Put(<<>>, key, v)

Configs ==
    {Put(MkObj("serviceAccount", sa), "bucketName", b) :
        sa \in ConfigServiceAccounts, b \in BucketNames \ {Undefined}}
    \cup {MkObj("serviceAccount", sa) : sa \in ConfigServiceAccounts}

SecretStores == {MkObj("serviceAccount", s) : s \in SecretServiceAccounts}

\* what the SDK does when prepare reaches it
PrepareEnvs == {"ok", "importRejects", "constructorThrows", "getFilesRejects"}

\* the removal branch taken whenever a secret is stored, not only for ''
PrepareSecrets_RemoveAlways(cfg, sec) ==
    LET serviceAccount == Get(cfg, "serviceAccount") IN
    IF Truthy(serviceAccount) /\ serviceAccount # Sentinel
    THEN Put(sec, "serviceAccount", serviceAccount)
    ELSE IF Truthy(Get(sec, "serviceAccount"))
         THEN Delete(sec, "serviceAccount")
         ELSE sec

\* the removal branch leaving the secret in place
PrepareSecrets_NoDelete(cfg, sec) ==
    LET serviceAccount == Get(cfg, "serviceAccount") IN
    IF Truthy(serviceAccount) /\ serviceAccount # Sentinel
    THEN Put(sec, "serviceAccount", serviceAccount)
    ELSE sec

\* the rotate / remove / no-op step: the secrets object after it
PrepareSecrets(cfg, sec) ==
    LET serviceAccount == Get(cfg, "serviceAccount") IN
    IF Truthy(serviceAccount) /\ serviceAccount # Sentinel
    THEN Put(sec, "serviceAccount", serviceAccount)
    ELSE IF Truthy(Get(sec, "serviceAccount")) /\ serviceAccount = ""
         THEN Delete(sec, "serviceAccount")
         ELSE sec

\* the rotation branch forgetting to mask the configuration
PrepareConfig_NoMask(cfg, sec) == cfg

\* the rotate / remove / no-op step: the catalogConfig object after it
PrepareConfig(cfg, sec) ==
    LET serviceAccount == Get(cfg, "serviceAccount") IN
    IF Truthy(serviceAccount) /\ serviceAccount # Sentinel
    THEN Put(cfg, "serviceAccount", Sentinel)
    ELSE cfg

\* the gate with || in place of &&
PrepareGate_Or(cfg, sec) ==
    Truthy(Get(sec, "serviceAccount")) \/ Truthy(Get(cfg, "bucketName"))

\* the condition of the validation gate
PrepareGate(cfg, sec) ==
    Truthy(Get(sec, "serviceAccount")) /\ Truthy(Get(cfg, "bucketName"))

\* the calls made inside the try block, in order, up to the first one that throws
PrepareCalls(cfg, sec, env) ==
    LET imported == [ev |-> "import", ok |-> env # "importRejects"]
        parsed == [ev |-> "JSON.parse", ok |-> JSONParses(Get(sec, "serviceAccount"))]
        ctor == [ev |-> "new Storage", ok |-> env # "constructorThrows"]
        probe == [ev |-> "getFiles", ok |-> env # "getFilesRejects",
                  bucket |-> Get(cfg, "bucketName"), maxResults |-> 1]
    IN  IF ~imported.ok THEN <<imported>>
        ELSE IF ~parsed.ok THEN <<imported, parsed>>
        ELSE IF ~ctor.ok THEN <<imported, parsed, ctor>>
        ELSE <<imported, parsed, ctor, probe>>

AllOk(calls) == \A i \in 1..Len(calls) : calls[i].ok

Prepare(env) ==
    LET cfg1 == PrepareConfig(catalogConfig, secrets)
        sec1 == PrepareSecrets(catalogConfig, secrets)
        calls == IF PrepareGate(cfg1, sec1) THEN PrepareCalls(cfg1, sec1, env) ELSE <<>>
    IN  /\ input.call = "prepare"
        /\ input' = [call |-> "prepare", catalogConfig |-> catalogConfig,
                     secrets |-> secrets, env |-> env]
        /\ catalogConfig' = cfg1
        /\ secrets' = sec1
        /\ trace' = calls
        /\ result' = IF ~PrepareGate(cfg1, sec1) THEN Rejected("prepare", MissingConfiguration)
                     ELSE IF ~AllOk(calls) THEN Rejected("prepare", InvalidCredentials)
                     ELSE Resolved("prepare", [catalogConfig |-> cfg1, secrets |-> sec1])
        /\ UNCHANGED streamVars

InitPrepare ==
    /\ catalogConfig \in Configs
    /\ secrets \in SecretStores
    /\ input = [call |-> "prepare"]
    /\ result = Pending
    /\ trace = <<>>
    /\ NoStream


----------------------------------------------------------------------------
(* Properties of prepare *)

PrepareCalled == result.op = "prepare"

PrepareSucceeded == PrepareCalled /\ result.status = "ok"

\* the probe with credential text `cred` succeeds: the text parses, the SDK
\* loads and builds its client, and getFiles resolves
ProbeSucceedsWith(cred, env) == JSONParses(cred) /\ env = "ok"

Probes == SelectSeq(trace, LAMBDA c : c.ev = "getFiles")

FreshValue(v) == v # Undefined /\ v # "" /\ v # Sentinel

\* C1: whenever prepare succeeds, the returned config.serviceAccount is the
\* masking sentinel or absent and secrets.serviceAccount holds the credential;
\* for a fresh non-empty non-sentinel value V, a non-empty bucketName and a
\* successful probe, prepare returns config.serviceAccount = sentinel and
\* secrets.serviceAccount = V, whatever secret was stored before.
C1_NeverRawOnSuccess ==
    PrepareCalled =>
        LET V == Get(input.catalogConfig, "serviceAccount")
            before == Get(input.secrets, "serviceAccount")
        IN  /\ PrepareSucceeded =>
                /\ Get(result.value.catalogConfig, "serviceAccount") \in {Sentinel, Undefined}
                /\ Get(result.value.secrets, "serviceAccount") \notin {Undefined, "", Sentinel}
                /\ Get(result.value.secrets, "serviceAccount") = IF FreshValue(V) THEN V ELSE before
            /\ ( /\ FreshValue(V)
                 /\ Get(input.catalogConfig, "bucketName") \notin {Undefined, ""}
                 /\ ProbeSucceedsWith(V, input.env) ) =>
                /\ PrepareSucceeded
                /\ Get(result.value.catalogConfig, "serviceAccount") = Sentinel
                /\ Get(result.value.secrets, "serviceAccount") = V

C1_Witness ==
    /\ PrepareSucceeded
    /\ Get(input.catalogConfig, "serviceAccount") = GoodCred1
    /\ Get(input.secrets, "serviceAccount") = GoodCred2
    /\ Get(secrets, "serviceAccount") = GoodCred1

MaskedInput(in) ==
    /\ Get(in.catalogConfig, "serviceAccount") = Sentinel
    /\ Get(in.secrets, "serviceAccount") \notin {Undefined, ""}
    /\ Get(in.catalogConfig, "bucketName") \notin {Undefined, ""}
    /\ ProbeSucceedsWith(Get(in.secrets, "serviceAccount"), in.env)

\* C2: with config.serviceAccount equal to the sentinel, a stored secret, a
\* non-empty bucketName and a successful probe, prepare succeeds and returns
\* its input unchanged; and prepare applied to the output of a successful
\* prepare (the probe succeeding again) returns the same config and secrets.
C2_MaskingIdempotence ==
    [][ /\ (result'.op = "prepare" /\ MaskedInput(input')) =>
            /\ result'.status = "ok"
            /\ result'.value.catalogConfig = input'.catalogConfig
            /\ result'.value.secrets = input'.secrets
        /\ (PrepareSucceeded /\ result'.op = "prepare" /\ input'.env = "ok") =>
            /\ result'.status = "ok"
            /\ result'.value = result.value
            /\ catalogConfig' = catalogConfig
            /\ secrets' = secrets ]_vars

C2_Witness ==
    /\ PrepareSucceeded
    /\ MaskedInput(input)
    /\ result.value.catalogConfig = input.catalogConfig
    /\ result.value.secrets = input.secrets

RemovalInput ==
    /\ PrepareCalled
    /\ Get(input.secrets, "serviceAccount") \notin {Undefined, ""}
    /\ Get(input.catalogConfig, "serviceAccount") = ""

\* C3: with a stored secret and config.serviceAccount = '' (any bucketName),
\* prepare deletes the secret from the caller's secrets object, then fails
\* with MissingConfiguration; the deletion is visible after the failure and
\* no bucket probe (no outbound call at all) is made.
C3_ExplicitRemoval ==
    RemovalInput =>
        /\ "serviceAccount" \notin DOMAIN secrets
        /\ result.status = "error"
        /\ result.error = MissingConfiguration
        /\ trace = <<>>

C3_Witness ==
    /\ RemovalInput
    /\ Get(input.catalogConfig, "bucketName") = "test-bucket"
    /\ "serviceAccount" \notin DOMAIN secrets

\* the state after the rotate/remove/no-op step
MissingAfterStep ==
    \/ Get(secrets, "serviceAccount") \in {Undefined, ""}
    \/ Get(catalogConfig, "bucketName") \in {Undefined, ""}

ProbeFailed == \E i \in 1..Len(trace) : trace[i].ev = "getFiles" /\ ~trace[i].ok

\* C4 as stated: MissingConfiguration exactly when the secret is unset or the
\* bucketName empty, with no outbound call; otherwise exactly one probe with
\* maxResults 1, InvalidCredentials iff the JSON parse or the probe fails, and
\* success in every other case.
C4_AsStated ==
    PrepareCalled =>
        /\ (result.status = "error" /\ result.error = MissingConfiguration) <=> MissingAfterStep
        /\ MissingAfterStep => trace = <<>>
        /\ ~MissingAfterStep =>
            /\ Len(Probes) = 1
            /\ Probes[1].maxResults = 1
            /\ (result.status = "error" /\ result.error = InvalidCredentials)
                    <=> (~JSONParses(Get(secrets, "serviceAccount")) \/ ProbeFailed)
            /\ result.status \in {"ok", "error"}

\* C4 amended: MissingConfiguration exactly when the secret is unset or the
\* bucketName empty, with no outbound call; otherwise the probe is made only
\* after the SDK is loaded, the credential parsed and the client built: one
\* probe with maxResults 1 when all three succeed and none when one fails;
\* InvalidCredentials iff one of those steps or the probe fails, success in
\* every other case.
C4_FailureTaxonomy ==
    PrepareCalled =>
        LET ready == /\ input.env \notin {"importRejects", "constructorThrows"}
                     /\ JSONParses(Get(secrets, "serviceAccount"))
        IN  /\ (result.status = "error" /\ result.error = MissingConfiguration) <=> MissingAfterStep
            /\ MissingAfterStep => trace = <<>>
            /\ ~MissingAfterStep =>
                /\ Len(Probes) = IF ready THEN 1 ELSE 0
                /\ \A i \in 1..Len(Probes) :
                        /\ Probes[i].maxResults = 1
                        /\ Probes[i].bucket = Get(catalogConfig, "bucketName")
                /\ (result.status = "error" /\ result.error = InvalidCredentials)
                        <=> (~ready \/ ProbeFailed)
                /\ result.status = "ok" <=> (ready /\ ~ProbeFailed)
                /\ result.status \in {"ok", "error"}

C4_Witness ==
    /\ PrepareCalled
    /\ ~MissingAfterStep
    /\ Get(secrets, "serviceAccount") = BadCred
    /\ Len(Probes) = 0
    /\ result.error = InvalidCredentials


----------------------------------------------------------------------------
(* lib/imports.ts: listResources *)

Has(obj, key) == key \in DOMAIN obj

SeqsUpTo(S, n) == UNION {[1..k -> S] : k \in 0..n}

\* object names and common prefixes the backend may return
ObjectNames ==
    {n \in StringsUpTo(2) : n # <<>> /\ \A i \in 1..Len(n) : n[i] # "."}
    \cup {<<"a", ".", "a">>}
BackendPrefixes ==
    {p \in StringsUpTo(2) : p # <<>> /\ p[Len(p)] = "/" /\ \A i \in 1..Len(p) : p[i] # "."}

BackendFiles ==
    {[name |-> n, metadata |-> [size |-> 1000 * Len(n), contentType |-> "text/csv"]] :
        n \in ObjectNames}

\* the third element of the getFiles result: with or without `prefixes`
BackendResponses ==
    {<<>>} \cup {[prefixes |-> ps] : ps \in SeqsUpTo(BackendPrefixes, MaxPrefixes)}

ListParams ==
    {<<>>, [currentFolderId |-> <<>>], [currentFolderId |-> <<"a", "/">>],
     [currentFolderId |-> <<"a", "/">>, q |-> <<"a">>]}

ListEnvs == {"ok", "constructorThrows", "getFilesRejects"}

\* params.currentFolderId after `if (!params.currentFolderId) params.currentFolderId = ''`
NormalizedFolderId(params) ==
    IF Has(params, "currentFolderId") /\ params.currentFolderId # <<>>
    THEN params.currentFolderId
    ELSE <<>>

\* the options object handed to getFiles
ListOptions(params) ==
    LET currentFolderId == NormalizedFolderId(params)
        base == [autoPaginate |-> TRUE, prefix |-> currentFolderId,
                 delimiter |-> <<"/">>, includeTrailingDelimiter |-> FALSE]
    IN  IF Has(params, "q") /\ params.q # <<>>
        THEN Put(base, "matchGlob", currentFolderId \o <<"*">> \o params.q \o <<"*", "*">>)
        ELSE base

\* the filter keeping the current folder's own object
ResFiles_NoFilter(files, currentFolderId) ==
    Map(files,
        LAMBDA f : [id |-> f.name, title |-> Basename(f.name), type |-> "resource",
                    size |-> f.metadata.size,
                    format |-> SubstringFrom(Extname(f.name), 1),
                    mimeType |-> f.metadata.contentType])

ResFiles(files, currentFolderId) ==
    Map(Filter(files, LAMBDA f : f.name # currentFolderId),
        LAMBDA f : [id |-> f.name, title |-> Basename(f.name), type |-> "resource",
                    size |-> f.metadata.size,
                    format |-> SubstringFrom(Extname(f.name), 1),
                    mimeType |-> f.metadata.contentType])

FoldersFromPrefixes(prefixes) ==
    Map(Filter(prefixes, LAMBDA prefix : prefix # <<"/">>),
        LAMBDA prefix :
            LET dosName == SubSeq(prefix, 1, Len(prefix) - 1)
            IN  [id |-> prefix,
                 title |-> SubstringFrom(dosName, LastIndexOf(dosName, "/")),
                 type |-> "folder"])

FoldPath(currentFolderId) ==
    LET foldersPath == SplitSegments(currentFolderId)
    IN  [idx \in 1..Len(foldersPath) |->
            [id |-> JoinSegments(SubSeq(foldersPath, 1, idx)) \o <<"/">>,
             title |-> foldersPath[idx],
             type |-> "folder"]]

\* folders listed before files
ListValue_FoldersFirst(params, files, response) ==
    LET currentFolderId == NormalizedFolderId(params)
        prefixes == IF Has(response, "prefixes") THEN response.prefixes ELSE <<>>
        resFiles == ResFiles(files, currentFolderId)
        foldersFromPrefixes == FoldersFromPrefixes(prefixes)
    IN  [count |-> Len(resFiles) + Len(foldersFromPrefixes),
         results |-> foldersFromPrefixes \o resFiles,
         path |-> FoldPath(currentFolderId)]

\* the object listResources returns
ListValue(params, files, response) ==
    LET currentFolderId == NormalizedFolderId(params)
        prefixes == IF Has(response, "prefixes") THEN response.prefixes ELSE <<>>
        resFiles == ResFiles(files, currentFolderId)
        foldersFromPrefixes == FoldersFromPrefixes(prefixes)
    IN  [count |-> Len(resFiles) + Len(foldersFromPrefixes),
         results |-> resFiles \o foldersFromPrefixes,
         path |-> FoldPath(currentFolderId)]

\* the calls made inside the try block, in order, up to the first one that throws
ListCalls(cfg, sec, params, env) ==
    LET parsed == [ev |-> "JSON.parse", ok |-> JSONParses(Get(sec, "serviceAccount"))]
        ctor == [ev |-> "new Storage", ok |-> env # "constructorThrows"]
        listed == [ev |-> "getFiles", ok |-> env # "getFilesRejects",
                   bucket |-> Get(cfg, "bucketName"), options |-> ListOptions(params)]
    IN  IF ~parsed.ok THEN <<parsed>>
        ELSE IF ~ctor.ok THEN <<parsed, ctor>>
        ELSE <<parsed, ctor, listed>>

\* the precondition wrapped by the try block
ListResult_GuardInsideTry(sec, calls, value) ==
    IF ~Truthy(Get(sec, "serviceAccount")) THEN Rejected("listResources", ListingFailed)
    ELSE IF ~AllOk(calls) THEN Rejected("listResources", ListingFailed)
    ELSE Resolved("listResources", value)

\* the settlement of listResources
ListResult(sec, calls, value) ==
    IF ~Truthy(Get(sec, "serviceAccount")) THEN Rejected("listResources", Unauthenticated)
    ELSE IF ~AllOk(calls) THEN Rejected("listResources", ListingFailed)
    ELSE Resolved("listResources", value)

ListResources ==
    LET authed == Truthy(Get(secrets, "serviceAccount"))
        calls == IF authed THEN ListCalls(catalogConfig, secrets, input.params, input.env)
                 ELSE <<>>
    IN  /\ input.call = "listResources"
        /\ result.status = "idle"
        /\ trace' = calls
        /\ result' = ListResult(secrets, calls,
                                ListValue(input.params, input.files, input.response))
        /\ UNCHANGED <<catalogConfig, secrets, input>>
        /\ UNCHANGED streamVars

\* the contexts listResources is called with, and what the SDK will do
ListInputs ==
    {[call |-> "listResources", params |-> params, files |-> files, response |-> response,
      env |-> env] :
        params \in ListParams, files \in SeqsUpTo(BackendFiles, MaxFiles),
        response \in BackendResponses, env \in ListEnvs}

InitList ==
    /\ catalogConfig = [bucketName |-> "test-bucket"]
    /\ secrets \in {MkObj("serviceAccount", s) : s \in {Undefined, "", GoodCred1, BadCred}}
    /\ input \in ListInputs
    /\ Get(secrets, "serviceAccount") # GoodCred1 => input.env = "ok"
    /\ result = Pending
    /\ trace = <<>>
    /\ NoStream


----------------------------------------------------------------------------
(* lib/imports.ts: getResource *)

\* the error the remote read stream emits
StreamError == "read stream error"

TmpDir == <<"/", "t">>

\* path.join(dir, name) for a normalized absolute dir and a name without '/'
PathJoin(dir, name) ==
    IF name = <<>> \/ name = <<".">> THEN dir
    ELSE IF name = <<".", ".">>
         THEN (IF LastIndexOf(dir, "/") <= 1 THEN <<"/">>
               ELSE SubSeq(dir, 1, LastIndexOf(dir, "/") - 1))
         ELSE dir \o <<"/">> \o name

\* directories that exist: tmpDir and its ancestors
IsDirectory(path) == path = <<"/">> \/ path = TmpDir

\* globalThis.Number(text) for the size texts of the model
ToNumber(text) ==
    IF text = <<>> THEN 0
    ELSE IF text = <<"7">> THEN 7
    ELSE NaN

\* metadata.size as the backend reports it
MetadataSizes ==
    {[type |-> "string", text |-> <<"7">>], [type |-> "string", text |-> <<"x">>],
     [type |-> "number", num |-> 7], [type |-> "undefined"]}

SizeNum(size) ==
    IF size.type = "string" THEN ToNumber(size.text)
    ELSE IF size.type = "number" THEN size.num
    ELSE NaN

\* the first '/' taken in place of the last
FileName_FirstSlash(resourceId) ==
    LET slashes == {i \in 1..Len(resourceId) : resourceId[i] = "/"}
    IN  IF slashes = {} THEN resourceId
        ELSE SubstringFrom(resourceId, CHOOSE i \in slashes : \A j \in slashes : i <= j)

\* resourceId.substring(resourceId.lastIndexOf('/') + 1)
FileName(resourceId) == SubstringFrom(resourceId, LastIndexOf(resourceId, "/"))

FilePath(tmpDir, resourceId) == PathJoin(tmpDir, FileName(resourceId))

\* the object the promise resolves with
FetchedResource(tmpDir, resourceId) ==
    LET fileName == FileName(resourceId)
    IN  [id |-> resourceId,
         title |-> BasenameExt(fileName, Extname(fileName)),
         filePath |-> FilePath(tmpDir, resourceId),
         format |-> SubstringFrom(Extname(fileName), 1)]

GetEnvs == {"ok", "constructorThrows", "stepRejects", "getMetadataRejects", "taskRejects"}

\* the awaited calls before the streams are opened, up to the first one that throws
GetCalls(cfg, sec, in, env) ==
    LET parsed == [ev |-> "JSON.parse", ok |-> JSONParses(Get(sec, "serviceAccount"))]
        ctor == [ev |-> "new Storage", ok |-> env # "constructorThrows"]
        step == [ev |-> "log.step", ok |-> env # "stepRejects",
                 fileName |-> FileName(in.resourceId)]
        meta == [ev |-> "getMetadata", ok |-> env # "getMetadataRejects",
                 bucket |-> Get(cfg, "bucketName"), object |-> in.resourceId]
        task == [ev |-> "log.task", ok |-> env # "taskRejects", total |-> SizeNum(in.size)]
    IN  IF ~parsed.ok THEN <<parsed>>
        ELSE IF ~ctor.ok THEN <<parsed, ctor>>
        ELSE IF ~step.ok THEN <<parsed, ctor, step>>
        ELSE IF ~meta.ok THEN <<parsed, ctor, step, meta>>
        ELSE <<parsed, ctor, step, meta, task>>

\* the calls of the Promise executor
OpenCalls(cfg, in) ==
    << [ev |-> "createReadStream", bucket |-> Get(cfg, "bucketName"), object |-> in.resourceId],
       [ev |-> "createWriteStream", path |-> FilePath(in.tmpDir, in.resourceId)] >>

Settled == result.status \in {"ok", "error"}

\* resolve / reject: only the first settlement of a promise counts
Settle(r) == IF result.status = "pending" THEN r ELSE result

\* getResource up to the return of the promise
GetResource(env) ==
    LET authed == Truthy(Get(secrets, "serviceAccount"))
        calls == IF authed THEN GetCalls(catalogConfig, secrets, input, env) ELSE <<>>
    IN  /\ input.call = "getResource"
        /\ result.status = "idle"
        /\ UNCHANGED <<catalogConfig, secrets, input>>
        /\ IF ~authed
           THEN /\ result' = Rejected("getResource", Unauthenticated)
                /\ trace' = <<>>
                /\ UNCHANGED streamVars
           ELSE IF ~AllOk(calls)
           THEN /\ result' = Rejected("getResource", DownloadFailed)
                /\ trace' = Append(calls, [ev |-> "log.error", ok |-> TRUE])
                /\ UNCHANGED streamVars
           ELSE /\ result' = [op |-> "getResource", status |-> "pending", error |-> "",
                              value |-> <<>>]
                /\ trace' = calls \o OpenCalls(catalogConfig, input)
                /\ readState' = "flowing"
                /\ writeState' = "opening"
                /\ remaining' = input.chunks
                /\ UNCHANGED <<wbuf, file, progress, ending, crashed>>

Streaming == result.op = "getResource" /\ readState # "none" /\ ~crashed

\* the listener reporting the chunk's length in place of the running total
OnData_NotCumulative(progressOk, fatal) ==
    /\ Streaming
    /\ readState = "flowing"
    /\ remaining # <<>>
    /\ Len(wbuf) < MaxBuf
    /\ progress' = Len(Head(remaining))
    /\ trace' = Append(trace, [ev |-> "log.progress", ok |-> progressOk, n |-> progress'])
    /\ wbuf' = Append(wbuf, Head(remaining))
    /\ remaining' = Tail(remaining)
    /\ crashed' = (~progressOk /\ fatal)
    /\ UNCHANGED <<catalogConfig, secrets, input, result, file, readState, writeState, ending>>

\* the read stream emits 'data': the listener of getResource, then the pipe's
OnData(progressOk, fatal) ==
    /\ Streaming
    /\ readState = "flowing"
    /\ remaining # <<>>
    /\ Len(wbuf) < MaxBuf
    /\ progress' = progress + Len(Head(remaining))
    /\ trace' = Append(trace, [ev |-> "log.progress", ok |-> progressOk, n |-> progress'])
    /\ wbuf' = Append(wbuf, Head(remaining))
    /\ remaining' = Tail(remaining)
    /\ crashed' = (~progressOk /\ fatal)
    /\ UNCHANGED <<catalogConfig, secrets, input, result, file, readState, writeState, ending>>

\* the read stream emits 'end': the pipe ends the write stream
OnEnd ==
    /\ Streaming
    /\ readState = "flowing"
    /\ remaining = <<>>
    /\ readState' = "ended"
    /\ ending' = TRUE
    /\ UNCHANGED <<catalogConfig, secrets, input, result, trace, remaining, wbuf, file,
                   progress, writeState, crashed>>

\* the read stream emits 'error': await log.error, then reject(error)
OnReadError(logOk, fatal) ==
    /\ Streaming
    /\ readState = "flowing"
    /\ readState' = "errored"
    /\ trace' = Append(trace, [ev |-> "log.error", ok |-> logOk])
    /\ result' = IF logOk THEN Settle(Rejected("getResource", StreamError)) ELSE result
    /\ crashed' = (~logOk /\ fatal)
    /\ UNCHANGED <<catalogConfig, secrets, input, remaining, wbuf, file, progress,
                   writeState, ending>>

\* fs opens the file of the write stream
WriteOpen(ok, fatal) ==
    LET path == FilePath(input.tmpDir, input.resourceId)
        opened == ok /\ ~IsDirectory(path)
    IN  /\ Streaming
        /\ writeState = "opening"
        /\ writeState' = IF opened THEN "open" ELSE "errored"
        /\ file' = IF opened THEN Put(file, path, <<>>) ELSE file
        /\ readState' = IF ~opened /\ readState = "flowing" THEN "paused" ELSE readState
        /\ crashed' = (~opened /\ fatal)
        /\ UNCHANGED <<catalogConfig, secrets, input, result, trace, remaining, wbuf,
                       progress, ending>>

\* fs writes the oldest buffered chunk
WriteFlush(ok, fatal) ==
    LET path == FilePath(input.tmpDir, input.resourceId)
    IN  /\ Streaming
        /\ writeState = "open"
        /\ wbuf # <<>>
        /\ writeState' = IF ok THEN "open" ELSE "errored"
        /\ file' = IF ok THEN [file EXCEPT ![path] = @ \o Head(wbuf)] ELSE file
        /\ wbuf' = IF ok THEN Tail(wbuf) ELSE wbuf
        /\ readState' = IF ~ok /\ readState = "flowing" THEN "paused" ELSE readState
        /\ crashed' = (~ok /\ fatal)
        /\ UNCHANGED <<catalogConfig, secrets, input, result, trace, remaining, progress,
                       ending>>

\* the write stream emits 'finish': resolve
OnFinish ==
    /\ Streaming
    /\ writeState = "open"
    /\ ending
    /\ wbuf = <<>>
    /\ writeState' = "finished"
    /\ result' = Settle(Resolved("getResource", FetchedResource(input.tmpDir, input.resourceId)))
    /\ UNCHANGED <<catalogConfig, secrets, input, trace, remaining, wbuf, file, progress,
                   readState, ending, crashed>>

\* the remote object's bytes, numbered, and the ways the stream may chunk them
Bytes(from, to) == [i \in 1..(to - from + 1) |-> from + i - 1]

RECURSIVE ChunksFrom(_, _)
ChunksFrom(sizes, offset) ==
    IF sizes = <<>> THEN <<>>
    ELSE <<Bytes(offset + 1, offset + Head(sizes))>> \o ChunksFrom(Tail(sizes), offset + Head(sizes))

RECURSIVE Sum(_)
Sum(ns) == IF ns = <<>> THEN 0 ELSE Head(ns) + Sum(Tail(ns))

ChunkSeqs ==
    {ChunksFrom(sizes, 0) : sizes \in {sz \in SeqsUpTo(1..MaxBytes, MaxBytes) : Sum(sz) <= MaxBytes}}

RECURSIVE Flatten(_)
Flatten(chunks) == IF chunks = <<>> THEN <<>> ELSE Head(chunks) \o Flatten(Tail(chunks))

ResourceIds == StringsUpTo(MaxIdLen) \ {<<>>}

GetInputs ==
    {[call |-> "getResource", resourceId |-> id, tmpDir |-> TmpDir, chunks |-> cs,
      size |-> size] :
        id \in ResourceIds, cs \in ChunkSeqs, size \in {[type |-> "number", num |-> 7]}}
    \cup {[call |-> "getResource", resourceId |-> <<"a", "/", "a", ".", "a">>,
           tmpDir |-> TmpDir, chunks |-> <<>>, size |-> size] : size \in MetadataSizes}

InitGet ==
    /\ catalogConfig = [bucketName |-> "test-bucket"]
    /\ secrets \in {MkObj("serviceAccount", s) : s \in {Undefined, "", GoodCred1, BadCred}}
    /\ input \in GetInputs
    /\ result = Pending
    /\ trace = <<>>
    /\ NoStream

----------------------------------------------------------------------------
(* index.ts: the host calls one of the three operations of the plugin *)

Init == InitPrepare \/ InitList \/ InitGet

Next ==
    \/ \E env \in PrepareEnvs : Prepare(env)
    \/ ListResources
    \/ \E env \in GetEnvs : GetResource(env)
    \/ \E progressOk \in BOOLEAN, fatal \in BOOLEAN : OnData(progressOk, fatal)
    \/ OnEnd
    \/ \E logOk \in BOOLEAN, fatal \in BOOLEAN : OnReadError(logOk, fatal)
    \/ \E ok \in BOOLEAN, fatal \in BOOLEAN : WriteOpen(ok, fatal)
    \/ \E ok \in BOOLEAN, fatal \in BOOLEAN : WriteFlush(ok, fatal)
    \/ OnFinish

Spec == Init /\ [][Next]_vars

----------------------------------------------------------------------------
(* Properties of listResources and getResource *)

ListCalled == result.op = "listResources"

GetCalled == result.op = "getResource"

NoSecret == Get(secrets, "serviceAccount") \in {Undefined, ""}

\* C5: with secrets.serviceAccount absent or empty, listResources and
\* getResource fail with the Unauthenticated message, not the generic one,
\* before any client construction, network call, log notification or file
\* write.
C5_AuthPrecondition ==
    ((ListCalled \/ GetCalled) /\ NoSecret) =>
        /\ result.status = "error"
        /\ result.error = Unauthenticated
        /\ result.error \notin {ListingFailed, DownloadFailed}
        /\ trace = <<>>
        /\ file = <<>>
        /\ readState = "none"
        /\ writeState = "none"

C5_WitnessList == ListCalled /\ NoSecret /\ result.error = Unauthenticated

C5_WitnessGet == GetCalled /\ NoSecret /\ result.error = Unauthenticated

C5_Witness == C5_WitnessList \/ C5_WitnessGet

AwaitedCalls == {"JSON.parse", "new Storage", "getFiles", "log.step", "getMetadata", "log.task"}

CallFailed == \E i \in 1..Len(trace) : trace[i].ev \in AwaitedCalls /\ ~trace[i].ok

\* C6: once the auth precondition has passed, a failure of client
\* construction, credential parse or backend call in listResources, and of
\* credential parse, log.step, log.task, metadata fetch or the read stream in
\* getResource, reaches the caller as the operation's generic message and
\* never as the underlying error.
C6_ErrorCollapse ==
    /\ (ListCalled /\ ~NoSecret /\ CallFailed) =>
            (result.status = "error" /\ result.error = ListingFailed)
    /\ (GetCalled /\ ~NoSecret /\ CallFailed) =>
            (result.status = "error" /\ result.error = DownloadFailed)
    /\ (GetCalled /\ readState = "errored" /\ result.status = "error") =>
            result.error = DownloadFailed

\* C7: results are the resource entries of the backend's objects, minus the
\* one named currentFolderId, in backend order, followed by the folder
\* entries of the backend's prefixes, minus '/', in backend order; every
\* resource precedes every folder, '/' is never a folder, count = length.
C7_ListingPartition ==
    (ListCalled /\ result.status = "ok") =>
        LET folderId == IF Has(input.params, "currentFolderId")
                        THEN input.params.currentFolderId ELSE <<>>
            P == IF Has(input.response, "prefixes") THEN input.response.prefixes ELSE <<>>
            keptF == SelectSeq(input.files, LAMBDA f : f.name # folderId)
            keptP == SelectSeq(P, LAMBDA pr : pr # <<"/">>)
            res == result.value.results
        IN  /\ Len(res) = Len(keptF) + Len(keptP)
            /\ result.value.count = Len(res)
            /\ \A i \in 1..Len(keptF) :
                    /\ res[i].type = "resource"
                    /\ res[i].id = keptF[i].name
                    /\ res[i].size = keptF[i].metadata.size
                    /\ res[i].mimeType = keptF[i].metadata.contentType
            /\ \A j \in 1..Len(keptP) :
                    /\ res[Len(keptF) + j].type = "folder"
                    /\ res[Len(keptF) + j].id = keptP[j]
            /\ \A i, j \in 1..Len(res) :
                    (res[i].type = "resource" /\ res[j].type = "folder") => i < j
            /\ \A i \in 1..Len(res) : res[i].type = "folder" => res[i].id # <<"/">>

C7_Witness ==
    /\ ListCalled
    /\ result.status = "ok"
    /\ Has(input.params, "currentFolderId")
    /\ Len(input.files) = 2
    /\ input.files[1].name = input.params.currentFolderId
    /\ Has(input.response, "prefixes")
    /\ Len(input.response.prefixes) = 2
    /\ input.response.prefixes[1] = <<"/">>
    /\ input.response.prefixes[2] # <<"/">>
    /\ Len(result.value.results) = 2

NoSlash(str) == \A i \in 1..Len(str) : str[i] # "/"

\* C8: whenever getResource resolves, the file tmpDir/fileName (fileName = the
\* part of resourceId after its last '/') is the only file written and holds
\* every chunk of the read stream in arrival order, none lost or repeated;
\* the write side has finished; id, filePath, format and title are as stated.
C8_DownloadRoundTrip ==
    (GetCalled /\ result.status = "ok") =>
        LET v == result.value
            id == input.resourceId
            names == {n \in {SubSeq(id, k, Len(id)) : k \in 1..(Len(id) + 1)} :
                        /\ NoSlash(n)
                        /\ (Len(n) = Len(id) \/ id[Len(id) - Len(n)] = "/")}
            ext == IF v.format = <<>> /\ ~EndsWith(v.filePath, <<".">>) THEN <<>>
                   ELSE <<".">> \o v.format
        IN  /\ v.id = id
            /\ \E fileName \in names :
                    /\ v.filePath = input.tmpDir \o <<"/">> \o fileName
                    /\ fileName = v.title \o ext
                    /\ v.title # <<>>
                    /\ \A i \in 1..Len(v.format) : v.format[i] # "."
            /\ DOMAIN file = {v.filePath}
            /\ file[v.filePath] = Flatten(input.chunks)
            /\ remaining = <<>>
            /\ wbuf = <<>>
            /\ writeState = "finished"
            /\ readState = "ended"

C8_Witness ==
    /\ GetCalled
    /\ result.status = "ok"
    /\ Len(input.chunks) >= 2
    /\ input.resourceId = <<"/", "/", "a">>
    /\ file[result.value.filePath] = Flatten(input.chunks)

EventIdx(ev) == {i \in 1..Len(trace) : trace[i].ev = ev}

Before(evA, evB) == \A j \in EventIdx(evB) : \E i \in EventIdx(evA) : i < j

Progressed == SelectSeq(trace, LAMBDA e : e.ev = "log.progress")

Received == Len(Flatten(input.chunks)) - Len(Flatten(remaining))

\* C9: the step notification precedes the metadata fetch; the task
\* notification comes only after a successful metadata fetch; the read stream
\* is opened and progress is notified only after the task notification; when
\* the metadata fetch fails there is no task or progress notification, no
\* read stream and no file.  Progress values are the cumulative byte counts,
\* strictly increasing, and on success the last one is the number of bytes
\* received.
C9_EventOrdering ==
    GetCalled =>
        /\ Before("log.step", "getMetadata")
        /\ Before("getMetadata", "log.task")
        /\ \A j \in EventIdx("log.task") :
                \E i \in EventIdx("getMetadata") : i < j /\ trace[i].ok
        /\ Before("log.task", "createReadStream")
        /\ Before("log.task", "createWriteStream")
        /\ Before("createReadStream", "log.progress")
        /\ (\E i \in EventIdx("getMetadata") : ~trace[i].ok) =>
                /\ EventIdx("log.task") = {}
                /\ EventIdx("log.progress") = {}
                /\ EventIdx("createReadStream") = {}
                /\ EventIdx("createWriteStream") = {}
                /\ file = <<>>
                /\ readState = "none"
        /\ \A k \in 1..Len(Progressed) :
                /\ Progressed[k].n = Len(Flatten(SubSeq(input.chunks, 1, k)))
                /\ k > 1 => Progressed[k - 1].n < Progressed[k].n
        /\ Len(Progressed) > 0 => Progressed[Len(Progressed)].n = Received
        /\ (result.status = "ok" /\ Len(Progressed) > 0) =>
                Progressed[Len(Progressed)].n = Len(Flatten(input.chunks))

C9_Witness ==
    /\ GetCalled
    /\ result.status = "ok"
    /\ Len(Progressed) >= 2
    /\ Progressed[Len(Progressed)].n = MaxBytes

C9_WitnessNoMetadata ==
    /\ GetCalled
    /\ \E i \in EventIdx("getMetadata") : ~trace[i].ok

ProgressFailed == \E i \in EventIdx("log.progress") : ~trace[i].ok

\* C10: when a log.progress call made while chunks arrive fails, the download
\* is aborted and getResource rejects; it never resolves with a fetched
\* resource after a failed progress notification.
C10_ProgressFailureIsHard ==
    (GetCalled /\ ProgressFailed) => result.status # "ok"

StreamsOpened == GetCalled /\ readState # "none"

\* C11: a getResource call that has opened its streams settles exactly once:
\* it has resolved once the read stream has ended and the write side has
\* finished, and it has failed once the read stream or the write to
\* tmpDir/fileName has errored; it is never left pending by such an event.
C11_DownloadSettlement ==
    StreamsOpened =>
        /\ (readState = "ended" /\ writeState = "finished") => result.status = "ok"
        /\ (readState = "errored" \/ writeState = "errored") => result.status = "error"
        /\ result.status \in {"pending", "ok", "error"}

====
